---- MODULE Spec2Model ----
(***************************************************************************)
(* Model of sk_cryptography/elliptic_curves.py: ECDH (pubkey, ecdh) and    *)
(* ECDSA (ecsigset, ecsig, ecdsaverify) over curves y^2 = x^3 + Ax + B     *)
(* modulo a small prime, with the nonce sampler ephemeralkey of            *)
(* diffie_hellman.py.  Curve points are the triples Sage uses: an affine   *)
(* point is <<x, y, 1>> and the point at infinity E(0) is <<0, 1, 0>>, so  *)
(* that P[0] and P[1] of the code are P[1] and P[2] here.  The sources are  *)
(* read as Sage reads them: ^ is exponentiation, mod(x, p) of an element   *)
(* of GF(q) reduces its integer lift, and comparing an integer with an     *)
(* element of IntegerModRing(p) compares modulo p.                         *)
(***************************************************************************)
EXTENDS Integers, Sequences, FiniteSets, TLC

VARIABLES curve, dh, sel, sg, vf, eg

vars == <<curve, dh, sel, sg, vf, eg>>

-----------------------------------------------------------------------------
(* Bounds of the model *)

\* largest modulus handed to the functions
MaxQ == 7
\* largest coefficients A and B handed to the functions
MaxA == 2
MaxB == 2
\* largest private key of an ECDH party
MaxK == 3
\* the number of sampling rounds of ecsigset the model counts (the count saturates)
MaxTrials == 3
\* largest private key of a signer
MaxD == 2
\* largest message handed to ecsig
MaxM == 7
\* the ElGamal moduli run from MinP to MaxP
MinP == 67
MaxP == 73
\* largest base a handed to elgamalencrypt
MaxG == 7
\* largest ElGamal private key
MaxX == 3
\* longest plaintext string
MaxLen == 2
\* how far above the subgroup order the values r, s, m handed to ecdsaverify go
Excess == 1

-----------------------------------------------------------------------------
(* Integer helpers: primality, residues, inverses *)

is_prime(n) == n >= 2 /\ \A d \in 2..(n - 1) : n % d # 0

\* an element of Z/nZ has an inverse iff some residue multiplies it to 1
Invertible(a, n) == \E x \in 0..(n - 1) : (a * x) % n = 1 % n

InvMod(a, n) == CHOOSE x \in 0..(n - 1) : (a * x) % n = 1 % n

\* the prime factors of n, and the last entry of the sorted list
prime_factors(n) == {f \in 2..n : n % f = 0 /\ is_prime(f)}

SetMax(S) == CHOOSE x \in S : \A y \in S : y <= x

-----------------------------------------------------------------------------
(* EllipticCurve(GF(q), [A, B]) and its points *)

\* the constructor raises when the curve is singular: discriminant
\* -16(4A^3 + 27B^2) is zero in GF(q)
Nonsingular(q, A, B) == (16 * (4 * A * A * A + 27 * B * B)) % q # 0

\* EllipticCurve(GF(q), [A, B]) returns a curve (it raises otherwise)
CurveOK(q, A, B) == is_prime(q) /\ Nonsingular(q, A, B)

Inf == <<0, 1, 0>>

Aff(x, y) == <<x, y, 1>>

\* E(x, y) raises unless the coordinates, reduced into GF(q), satisfy the equation
OnCurve(E, x, y) == (y * y) % E[1] = (x * x * x + E[2] * x + E[3]) % E[1]

AffinePoints(E) ==
  {P \in {Aff(x, y) : x \in 0..(E[1] - 1), y \in 0..(E[1] - 1)} : OnCurve(E, P[1], P[2])}

Points(E) == AffinePoints(E) \cup {Inf}

cardinality(E) == Cardinality(AffinePoints(E)) + 1

ecNeg(E, P) == IF P = Inf THEN Inf ELSE Aff(P[1], (0 - P[2]) % E[1])

\* the chord-and-tangent slope through P and Q (both affine, Q # -P)
Slope(E, P, Q) ==
  IF P = Q
    THEN ((3 * P[1] * P[1] + E[2]) * InvMod((2 * P[2]) % E[1], E[1])) % E[1]
    ELSE ((Q[2] - P[2]) * InvMod((Q[1] - P[1]) % E[1], E[1])) % E[1]

ecAdd(E, P, Q) ==
  IF P = Inf THEN Q
  ELSE IF Q = Inf THEN P
  ELSE IF P[1] = Q[1] /\ (P[2] + Q[2]) % E[1] = 0 THEN Inf
  ELSE LET l  == Slope(E, P, Q)
           x3 == (l * l - P[1] - Q[1]) % E[1]
       IN  Aff(x3, (l * (P[1] - x3) - P[2]) % E[1])

\* k*P by double-and-add; a negative k multiplies -P
RECURSIVE ecMulNat(_, _, _)
ecMulNat(E, k, P) ==
  IF k = 0 THEN Inf
  ELSE LET h == ecMulNat(E, k \div 2, P)
           d == ecAdd(E, h, h)
       IN  IF k % 2 = 1 THEN ecAdd(E, d, P) ELSE d

ecMul(E, k, P) == IF k < 0 THEN ecMulNat(E, 0 - k, ecNeg(E, P)) ELSE ecMulNat(E, k, P)

\* the least n >= 1 with n*P = E(0)
RECURSIVE OrderFrom(_, _, _, _)
OrderFrom(E, P, acc, n) == IF acc = Inf THEN n ELSE OrderFrom(E, P, ecAdd(E, acc, P), n + 1)

additive_order(E, P) == OrderFrom(E, P, P, 1)

-----------------------------------------------------------------------------
(* ECDH: pubkey and ecdh *)

Invalid == [kind |-> "Invalid input", x |-> 0, y |-> 0, mul |-> FALSE]

NoValue == [kind |-> "none", x |-> 0, y |-> 0, mul |-> FALSE]

Pair(P) == [kind |-> "pair", x |-> P[1], y |-> P[2], mul |-> TRUE]

\* pubkey without the test of lines 76-77 (kP == E(0))
pubkey_no_identity_test(p, A, B, P, k) ==
  IF (~is_prime(p)) \/ p <= 2 THEN Invalid
  ELSE IF ~Nonsingular(p, A, B) THEN Invalid
  ELSE IF ~OnCurve(<<p, A, B>>, P[1], P[2]) THEN Invalid
  ELSE Pair(ecMul(<<p, A, B>>, k, Aff(P[1] % p, P[2] % p)))

\* pubkey(p, A, B, P, k); mul records that line 75 (kP = k*P) was executed
pubkey(p, A, B, P, k) ==
  IF (~is_prime(p)) \/ p <= 2 THEN Invalid
  ELSE IF ~Nonsingular(p, A, B) THEN Invalid
  ELSE IF ~OnCurve(<<p, A, B>>, P[1], P[2]) THEN Invalid
  ELSE LET E  == <<p, A, B>>
           kP == ecMul(E, k, Aff(P[1] % p, P[2] % p))
       IN  IF kP = Inf THEN [Invalid EXCEPT !.mul = TRUE] ELSE Pair(kP)

\* the point X*b computed at line 94
ecdhPoint(p, A, B, b, Q) == ecMul(<<p, A, B>>, b, Aff(Q[1] % p, Q[2] % p))

Raised == [kind |-> "raised", x |-> 0, y |-> 0, mul |-> FALSE]

\* ecdh multiplying by a scalar that is off by one
ecdh_off_by_one(p, A, B, b, Q) ==
  IF ~CurveOK(p, A, B) \/ ~OnCurve(<<p, A, B>>, Q[1], Q[2]) THEN Raised
  ELSE Pair(ecdhPoint(p, A, B, b + 1, Q))

\* ecdh(p, A, B, b, Q) returns (shared_key[0], shared_key[1]); the constructors
\* of lines 92-93 raise on a bad curve or a pair that is not on it
ecdh(p, A, B, b, Q) ==
  IF ~CurveOK(p, A, B) \/ ~OnCurve(<<p, A, B>>, Q[1], Q[2]) THEN Raised
  ELSE Pair(ecdhPoint(p, A, B, b, Q))

-----------------------------------------------------------------------------
(* The ECDH exchange: both parties call pubkey, then ecdh on the other's key *)

Parties == {"alice", "bob"}

Other(w) == IF w = "alice" THEN "bob" ELSE "alice"

IdleDH == [G |-> <<0, 0>>, priv |-> [w \in Parties |-> 0],
           pub |-> [w \in Parties |-> NoValue], key |-> [w \in Parties |-> NoValue]]

IdleSel == [pc |-> "idle", trials |-> 0, p |-> 0, x |-> 0, y |-> 0]

NoSig == [kind |-> "none", r |-> 0, s |-> 0, Qx |-> 0, Qy |-> 0]

IdleSg == [pc |-> "idle", G |-> <<0, 0>>, p |-> 0, d |-> 0, m |-> 0, k |-> 0,
           ret |-> NoSig, ver |-> "none"]

NoCipher == [kind |-> "none", c1 |-> 0, c2 |-> 0]

NoText == [kind |-> "none", val |-> <<>>]

IdleEg == [pc |-> "idle", p |-> 0, a |-> 0, n |-> 0, A |-> 0, s |-> <<>>, k |-> 0,
           c |-> NoCipher, ret |-> NoText]

IdleVf == [pc |-> "idle", d |-> 0, Q |-> <<0, 0>>, m |-> 0, r |-> 0, s |-> 0,
           ret |-> "none", mut |-> "none", delta |-> 0, mret |-> "none"]

InitDH ==
  /\ curve \in {<<p, A, B>> : p \in 2..MaxQ, A \in 0..MaxA, B \in 0..MaxB}
  /\ \E x \in 0..(curve[1] - 1), y \in 0..(curve[1] - 1) : dh = [IdleDH EXCEPT !.G = <<x, y>>]
  /\ sel = IdleSel
  /\ sg = IdleSg
  /\ vf = IdleVf
  /\ eg = IdleEg

Pubkey(w) ==
  /\ dh.pub[w].kind = "none"
  /\ \E k \in 0..MaxK :
       dh' = [dh EXCEPT !.priv[w] = k,
                        !.pub[w] = pubkey(curve[1], curve[2], curve[3], dh.G, k)]
  /\ UNCHANGED <<curve, sel, sg, vf, eg>>

Ecdh(w) ==
  /\ dh.pub[w].kind = "pair"
  /\ dh.pub[Other(w)].kind = "pair"
  /\ dh.key[w].kind = "none"
  /\ dh' = [dh EXCEPT !.key[w] = ecdh(curve[1], curve[2], curve[3], dh.priv[w],
                                      <<dh.pub[Other(w)].x, dh.pub[Other(w)].y>>)]
  /\ UNCHANGED <<curve, sel, sg, vf, eg>>

NextDH ==
  \/ \E w \in Parties : Pubkey(w)
  \/ \E w \in Parties : Ecdh(w)

SpecDH == InitDH /\ [][NextDH]_vars

-----------------------------------------------------------------------------
(* ECDSA: ecsigset *)

\* lines 162-164 without the multiplication by a = G.order()/p
ecsigsetResult_unscaled(E, p, G) == <<p, G[1], G[2]>>

\* lines 162-164: a = G.order()/p, G = a*G, return (p, (G[0], G[1]))
ecsigsetResult(E, p, G) ==
  LET aG == ecMul(E, additive_order(E, G) \div p, G) IN <<p, aG[1], aG[2]>>

\* lines 154-157: the curve, its cardinality and the largest prime factor; the
\* constructor raises on a bad curve and pf[len(pf)-1] raises on an empty list
SelStart ==
  /\ sel.pc = "start"
  /\ IF CurveOK(curve[1], curve[2], curve[3]) /\ prime_factors(cardinality(curve)) # {}
       THEN sel' = [sel EXCEPT !.pc = "loop", !.p = SetMax(prime_factors(cardinality(curve)))]
       ELSE sel' = [sel EXCEPT !.pc = "raised"]
  /\ UNCHANGED <<curve, dh, sg, vf, eg>>

\* lines 158-164: one round of the while loop on a random element of the curve,
\* and the return when its order is a multiple of p
SelSample ==
  /\ sel.pc = "loop"
  /\ \E G \in Points(curve) :
       LET n == IF sel.trials < MaxTrials THEN sel.trials + 1 ELSE MaxTrials
       IN  IF additive_order(curve, G) % sel.p = 0
             THEN LET res == ecsigsetResult(curve, sel.p, G)
                  IN  sel' = [pc |-> "done", trials |-> n, p |-> res[1],
                              x |-> res[2], y |-> res[3]]
             ELSE sel' = [sel EXCEPT !.trials = n]
  /\ UNCHANGED <<curve, dh, sg, vf, eg>>

InitSel ==
  /\ curve \in {<<q, A, B>> : q \in 2..MaxQ, A \in 0..MaxA, B \in 0..MaxB}
  /\ sel = [IdleSel EXCEPT !.pc = "start"]
  /\ dh = IdleDH
  /\ sg = IdleSg
  /\ vf = IdleVf
  /\ eg = IdleEg

NextSel == SelStart \/ SelSample

SpecSel == InitSel /\ [][NextSel]_vars

-----------------------------------------------------------------------------
(* ECDSA: ephemeralkey, ecsig, ecdsaverify *)

\* floor(p^(1/4)) and ceil(p^(3/4)), the two ends of the randint range
FloorRoot4(p) == CHOOSE k \in 0..p : k * k * k * k <= p /\ (k + 1) * (k + 1) * (k + 1) * (k + 1) > p

CeilRoot4Cube(p) ==
  CHOOSE k \in 0..p : k * k * k * k >= p * p * p
                       /\ (k = 0 \/ (k - 1) * (k - 1) * (k - 1) * (k - 1) < p * p * p)

\* the values ephemeralkey(p) can return
ephemeralkey(p) == FloorRoot4(p)..CeilRoot4Cube(p)

\* lines 184-190 of ecsig, up to the draw of the nonce
ecsigChecks(p, q, A, B, G, d, m) ==
  IF ~CurveOK(q, A, B) THEN "raised"
  ELSE IF ~OnCurve(<<q, A, B>>, G[1], G[2]) THEN "raised"
  ELSE IF additive_order(<<q, A, B>>, Aff(G[1] % q, G[2] % q)) # p THEN "Invalid input"
  ELSE IF m >= p \/ m >= q THEN "Invalid input"
  ELSE "ok"

\* ecsig(p, q, A, B, G, d, m) when ephemeralkey(p) returns k
ecsig(p, q, A, B, G, d, m, k) ==
  LET chk == ecsigChecks(p, q, A, B, G, d, m)
      E   == <<q, A, B>>
  IN  IF chk # "ok" THEN [NoSig EXCEPT !.kind = chk]
      ELSE IF ~Invertible(k, p) THEN [NoSig EXCEPT !.kind = "raised"]
      ELSE LET Q == ecMul(E, d, Aff(G[1] % q, G[2] % q))
               r == (G[1] % q) % p
               s == (InvMod(k % p, p) * (m + r * d)) % p
           IN  [kind |-> "sig", r |-> r, s |-> s, Qx |-> Q[1], Qy |-> Q[2]]

\* the point C of line 226
verifyPoint(E, G, p, Q, m, r, s) ==
  LET ss == InvMod(s % p, p)
  IN  ecAdd(E, ecMul(E, ss * m, Aff(G[1] % E[1], G[2] % E[1])),
               ecMul(E, ss * (r % p), Aff(Q[1] % E[1], Q[2] % E[1])))

\* ecdsaverify comparing the y-coordinate of C with r
ecdsaverify_y(q, A, B, G, p, Q, m, r, s) ==
  LET E == <<q, A, B>>
  IN  IF ~CurveOK(q, A, B) THEN "raised"
      ELSE IF ~OnCurve(E, G[1], G[2]) \/ ~OnCurve(E, Q[1], Q[2]) THEN "raised"
      ELSE IF additive_order(E, Aff(G[1] % q, G[2] % q)) # p THEN "Invalid input"
      ELSE IF ~Invertible(s % p, p) THEN "raised"
      ELSE IF verifyPoint(E, G, p, Q, m, r, s)[2] % p = r % p THEN "True" ELSE "False"

\* ecdsaverify(q, A, B, G, p, Q, m, (r, s)): "True", "False", "Invalid input",
\* or "raised" when a constructor or the inversion of s raises
ecdsaverify(q, A, B, G, p, Q, m, r, s) ==
  LET E == <<q, A, B>>
  IN  IF ~CurveOK(q, A, B) THEN "raised"
      ELSE IF ~OnCurve(E, G[1], G[2]) \/ ~OnCurve(E, Q[1], Q[2]) THEN "raised"
      ELSE IF additive_order(E, Aff(G[1] % q, G[2] % q)) # p THEN "Invalid input"
      ELSE IF ~Invertible(s % p, p) THEN "raised"
      ELSE IF verifyPoint(E, G, p, Q, m, r, s)[1] % p = r % p THEN "True" ELSE "False"

-----------------------------------------------------------------------------
(* Signing and verifying on a curve, a base point G and an order p *)

\* the order handed over with G: the order of G, or the one ecsigset reports
OrdersFor(E, G) ==
  {additive_order(E, Aff(G[1], G[2]))} \cup {SetMax(prime_factors(cardinality(E)))}

InitSig ==
  /\ curve \in {c \in {<<q, A, B>> : q \in 2..MaxQ, A \in 0..MaxA, B \in 0..MaxB} :
                  CurveOK(c[1], c[2], c[3]) /\ cardinality(c) > 1}
  /\ \E P \in AffinePoints(curve) : \E p \in OrdersFor(curve, P) :
       sg = [IdleSg EXCEPT !.pc = "start", !.G = <<P[1], P[2]>>, !.p = p]
  /\ vf = [IdleVf EXCEPT !.pc = "start"]
  /\ dh = IdleDH
  /\ sel = IdleSel
  /\ eg = IdleEg

\* one call of ecsig; the nonce is drawn only when line 191 is reached
Sign ==
  /\ sg.pc = "start" /\ vf.pc = "start"
  /\ \E d \in 0..MaxD, m \in 0..MaxM :
       \E k \in (IF ecsigChecks(sg.p, curve[1], curve[2], curve[3], sg.G, d, m) = "ok"
                    THEN ephemeralkey(sg.p) ELSE {0}) :
         sg' = [sg EXCEPT !.pc = "signed", !.d = d, !.m = m, !.k = k,
                          !.ret = ecsig(sg.p, curve[1], curve[2], curve[3], sg.G, d, m, k)]
  /\ UNCHANGED <<curve, dh, sel, vf, eg>>

\* ecdsaverify on the signature and public key ecsig returned, for the same message
VerifySigned ==
  /\ sg.pc = "signed" /\ sg.ret.kind = "sig"
  /\ sg' = [sg EXCEPT !.pc = "verified",
                      !.ver = ecdsaverify(curve[1], curve[2], curve[3], sg.G, sg.p,
                                          <<sg.ret.Qx, sg.ret.Qy>>, sg.m, sg.ret.r, sg.ret.s)]
  /\ UNCHANGED <<curve, dh, sel, vf, eg>>

\* the public key pair ecsig returns for private key d
PublicKey(d) ==
  LET Q == ecMul(curve, d, Aff(sg.G[1], sg.G[2])) IN <<Q[1], Q[2]>>

\* one call of ecdsaverify on a message and a signature of the caller's choosing
Verify ==
  /\ sg.pc = "start" /\ vf.pc = "start"
  /\ \E d \in 1..MaxD, m \in 0..(sg.p + Excess), r \in 0..(sg.p + Excess),
        s \in 0..(sg.p + Excess) :
       vf' = [vf EXCEPT !.pc = "verified", !.d = d, !.Q = PublicKey(d),
                        !.m = m, !.r = r, !.s = s,
                        !.ret = ecdsaverify(curve[1], curve[2], curve[3], sg.G, sg.p,
                                            PublicKey(d), m, r, s)]
  /\ UNCHANGED <<curve, dh, sel, sg, eg>>

\* ecdsaverify again after one of r, s, m of an accepted signature moved by 1
Reverify ==
  /\ vf.pc = "verified" /\ vf.ret = "True"
  /\ \E which \in {"r", "s", "m"}, delta \in {-1, 1} :
       LET r2 == IF which = "r" THEN vf.r + delta ELSE vf.r
           s2 == IF which = "s" THEN vf.s + delta ELSE vf.s
           m2 == IF which = "m" THEN vf.m + delta ELSE vf.m
       IN  vf' = [vf EXCEPT !.pc = "reverified", !.mut = which, !.delta = delta,
                            !.mret = ecdsaverify(curve[1], curve[2], curve[3], sg.G, sg.p,
                                                 vf.Q, m2, r2, s2)]
  /\ UNCHANGED <<curve, dh, sel, sg, eg>>

NextSig == Sign \/ VerifySigned \/ Verify \/ Reverify

SpecSig == InitSig /\ [][NextSig]_vars

-----------------------------------------------------------------------------
(* ElGamal: elgamalencrypt, elgamaldecrypt and the string conversions.       *)
(* A string is the sequence of the character codes of its characters.        *)

\* the characters of the plaintexts: tab, "!", "A" and "a"
Alphabet == {9, 33, 65, 97}

Strings == UNION {[1..n -> Alphabet] : n \in 1..MaxLen}

\* str.upper() on one character code
upper(c) == IF c \in 97..122 THEN c - 32 ELSE c

\* the number of decimal digits of str(ord(c))
Width(c) == IF c < 10 THEN 1 ELSE IF c < 100 THEN 2 ELSE 3

Pow10(n) == IF n = 1 THEN 10 ELSE IF n = 2 THEN 100 ELSE 1000

RECURSIVE Concat(_, _)
\* the integer whose decimal digits are acc followed by the codes of s
Concat(acc, s) ==
  IF s = <<>> THEN acc
  ELSE Concat(acc * Pow10(Width(Head(s))) + Head(s), Tail(s))

str2num(s) == Concat(0, [i \in 1..Len(s) |-> upper(s[i])])

RECURSIVE Digits(_)
\* str(m): the decimal digits of m
Digits(m) == IF m < 10 THEN <<m>> ELSE Append(Digits(m \div 10), m % 10)

num2str(m) ==
  LET d == Digits(m)
      n == Len(d)
  IN  [i \in 1..((n + 1) \div 2) |->
         IF 2 * i <= n THEN 10 * d[2 * i - 1] + d[2 * i] ELSE d[2 * i - 1]]

RECURSIVE power_mod(_, _, _)
\* power_mod(a, k, p) for k >= 0
power_mod(a, k, p) == IF k = 0 THEN 1 % p ELSE (a * power_mod(a, k - 1, p)) % p

\* elgamalencrypt(p, a, A, s) when ephemeralkey(p) returns k
elgamalencrypt(p, a, A, s, k) ==
  LET m == str2num(s)
  IN  IF m > p THEN [NoCipher EXCEPT !.kind = "m is too big to encrypt"]
      ELSE [kind |-> "tuple", c1 |-> power_mod(a, k, p),
            c2 |-> (m * power_mod(A, k, p)) % p]

\* whether the value p can be called as p(...): an int or Integer cannot
Callable(p) == p \notin Int

elgamaldecrypt(p, n, c) ==
  IF ~Callable(p) THEN [NoText EXCEPT !.kind = "raised"]
  ELSE IF c.kind # "tuple" THEN [NoText EXCEPT !.kind = "Invalid input"]
  ELSE IF ~Invertible(c.c1 % p, p) THEN [NoText EXCEPT !.kind = "raised"]
  ELSE [kind |-> "str",
        val |-> num2str((power_mod(InvMod(c.c1 % p, p), n, p) * c.c2) % p)]

InitEG ==
  /\ curve = <<2, 0, 0>>
  /\ dh = IdleDH
  /\ sel = IdleSel
  /\ sg = IdleSg
  /\ vf = IdleVf
  /\ \E p \in MinP..MaxP, a \in 2..MaxG, n \in 1..MaxX, s \in Strings :
       eg = [IdleEg EXCEPT !.pc = "start", !.p = p, !.a = a, !.n = n,
                           !.A = power_mod(a, n, p), !.s = s]

Encrypt ==
  /\ eg.pc = "start"
  /\ \E k \in ephemeralkey(eg.p) :
       LET c == elgamalencrypt(eg.p, eg.a, eg.A, eg.s, k)
       IN  eg' = [eg EXCEPT !.pc = "encrypted", !.c = c,
                            !.k = IF c.kind = "tuple" THEN k ELSE 0]
  /\ UNCHANGED <<curve, dh, sel, sg, vf>>

Decrypt ==
  /\ eg.pc = "encrypted"
  /\ eg' = [eg EXCEPT !.pc = "decrypted", !.ret = elgamaldecrypt(eg.p, eg.n, eg.c)]
  /\ UNCHANGED <<curve, dh, sel, sg, vf>>

NextEG == Encrypt \/ Decrypt

SpecEG == InitEG /\ [][NextEG]_vars

-----------------------------------------------------------------------------
(* Properties of the ECDH exchange *)

\* k*P by k successive additions of P (the definition of a scalar multiple)
RECURSIVE RepeatedAdd(_, _, _)
RepeatedAdd(E, k, P) == IF k = 0 THEN Inf ELSE ecAdd(E, RepeatedAdd(E, k - 1, P), P)

\* the cubic x^3 + Ax + B has a repeated root modulo p
SingularMod(p, A, B) == (4 * A * A * A + 27 * B * B) % p = 0

\* C2: when both public keys are points, the two parties' calls of ecdh on each
\* other's public key return the same pair.
C2_EcdhRoundTrip ==
  (dh.key["alice"].kind = "pair" /\ dh.key["bob"].kind = "pair")
    => (dh.key["alice"].x = dh.key["bob"].x /\ dh.key["alice"].y = dh.key["bob"].y)

\* both shared keys computed, from different private keys above 1, on an affine point
C2_Witness ==
  /\ dh.key["alice"].kind = "pair" /\ dh.key["bob"].kind = "pair"
  /\ dh.priv["alice"] > 1 /\ dh.priv["bob"] > dh.priv["alice"]
  /\ dh.pub["alice"] # dh.pub["bob"]
  /\ OnCurve(curve, dh.key["alice"].x, dh.key["alice"].y)

\* the point a party's call of ecdh computed
SharedPoint(w) ==
  ecdhPoint(curve[1], curve[2], curve[3], dh.priv[w],
            <<dh.pub[Other(w)].x, dh.pub[Other(w)].y>>)

\* C9: the pair ecdh returns when the computed point is the point at infinity is
\* not the pair of any affine point of the curve.
C9_IdentityDistinct ==
  \A w \in Parties :
    (dh.key[w].kind = "pair" /\ SharedPoint(w) = Inf)
      => ~OnCurve(curve, dh.key[w].x, dh.key[w].y)

\* C10: pubkey returns "Invalid input" without multiplying when p is not a prime
\* above 2, the curve is singular modulo p or P is not on the curve; "Invalid
\* input" when k*P is the identity; and otherwise the affine coordinates of k*P.
C10_PubkeyValidation ==
  \A w \in Parties :
    dh.pub[w].kind # "none" =>
      LET p   == curve[1]
          bad == \/ ~is_prime(p)
                 \/ p <= 2
                 \/ SingularMod(p, curve[2], curve[3])
                 \/ (dh.G[2] * dh.G[2] - dh.G[1] * dh.G[1] * dh.G[1]
                      - curve[2] * dh.G[1] - curve[3]) % p # 0
          kP  == RepeatedAdd(curve, dh.priv[w], Aff(dh.G[1], dh.G[2]))
      IN  IF bad THEN dh.pub[w] = Invalid
          ELSE IF kP = Inf THEN dh.pub[w].kind = "Invalid input"
          ELSE dh.pub[w] = [kind |-> "pair", x |-> kP[1], y |-> kP[2], mul |-> TRUE]

\* pubkey has answered "Invalid input" for an identity multiple k*P and a pair for
\* an affine multiple, both with k > 1
C10_Witness ==
  /\ dh.pub["alice"].kind = "Invalid input" /\ dh.pub["alice"].mul
  /\ dh.priv["alice"] > 1
  /\ dh.pub["bob"].kind = "pair" /\ dh.priv["bob"] > 1

-----------------------------------------------------------------------------
(* Properties of ecsigset *)

\* C3: whenever ecsigset returns (p, G), p is the largest prime factor of the
\* cardinality, G is an affine point of the curve, p*G is the identity and no
\* smaller positive multiple of G is, whichever points were sampled.
C3_SubgroupResult ==
  sel.pc = "done" =>
    LET N == cardinality(curve)
        G == Aff(sel.x, sel.y)
    IN  /\ is_prime(sel.p) /\ N % sel.p = 0
        /\ \A f \in (sel.p + 1)..N : ~(is_prime(f) /\ N % f = 0)
        /\ sel.x \in 0..(curve[1] - 1) /\ sel.y \in 0..(curve[1] - 1)
        /\ OnCurve(curve, sel.x, sel.y)
        /\ RepeatedAdd(curve, sel.p, G) = Inf
        /\ \A n \in 1..(sel.p - 1) : RepeatedAdd(curve, n, G) # Inf

\* ecsigset has returned after rejected samples, on a curve whose cardinality is
\* a proper multiple of p (so that the cofactor multiplication matters)
C3_Witness ==
  /\ sel.pc = "done"
  /\ sel.trials > 1
  /\ cardinality(curve) > sel.p
  /\ sel.p > 2

\* C8: the sampling loop of ecsigset is over once the number of rounds the caller
\* allows (MaxTrials here) have been made.
C8_BoundedSearch == sel.trials >= MaxTrials => sel.pc # "loop"

-----------------------------------------------------------------------------
(* Properties of ecsig and ecdsaverify *)

\* C1: for a generator G of prime order p, a private key d in [1, p-1] and a
\* message m below p and q, the signature and public key ecsig returns, whatever
\* nonce was drawn, are accepted by ecdsaverify for m.
C1_SignVerifyRoundTrip ==
  (/\ sg.pc = "verified"
   /\ is_prime(sg.p)
   /\ sg.d \in 1..(sg.p - 1)
   /\ sg.m < sg.p /\ sg.m < curve[1])
    => sg.ver = "True"

\* C4: ecdsaverify returns True only for signatures with r and s in [1, p-1].
C4_RangeCheck ==
  vf.ret = "True" => (vf.r \in 1..(sg.p - 1) /\ vf.s \in 1..(sg.p - 1))

\* C5: on a generator of order p and a public key on the curve, ecdsaverify
\* answers False when s is congruent to 0 modulo p.
C5_ZeroSRejected ==
  (/\ vf.pc = "verified"
   /\ additive_order(curve, Aff(sg.G[1], sg.G[2])) = sg.p
   /\ OnCurve(curve, vf.Q[1], vf.Q[2])
   /\ vf.s % sg.p = 0)
    => vf.ret = "False"

\* C6 as stated, on well-formed inputs: after r, s or m of an accepted signature
\* is changed by 1 (r, s staying in [1, p-1] and m in [0, p-1], p prime, Q = d*G
\* with d in [1, p-1]), ecdsaverify does not return True.
C6_MutationRejected ==
  (/\ vf.pc = "reverified"
   /\ is_prime(sg.p)
   /\ vf.d \in 1..(sg.p - 1)
   /\ vf.r \in 1..(sg.p - 1) /\ vf.s \in 1..(sg.p - 1) /\ vf.m \in 0..(sg.p - 1)
   /\ vf.mut = "r" => (vf.r + vf.delta) \in 1..(sg.p - 1)
   /\ vf.mut = "s" => (vf.s + vf.delta) \in 1..(sg.p - 1)
   /\ vf.mut = "m" => (vf.m + vf.delta) \in 0..(sg.p - 1))
    => vf.mret # "True"

\* two points of the subgroup of G that are not each other's negative have
\* x-coordinates that differ modulo p (the identity read with x = 0, as C[0])
NoXCollision(E, G, p) ==
  LET sub == {RepeatedAdd(E, i, G) : i \in 0..(p - 1)}
  IN  \A P \in sub, Q \in sub : P[1] % p = Q[1] % p => (P = Q \/ P = ecNeg(E, Q))

\* C6 as amended: for a signature accepted under Q = d*G, d not a multiple of p,
\* on a subgroup without x-collisions modulo p, ecdsaverify returns True after m
\* moved by delta exactly when 2(m + r*d) + delta = 0 (mod p), and after s moved
\* by delta only if (m + r*d)(2s + delta) = 0 (mod p).
C6_MutationRejectedUnlessNegated ==
  (/\ vf.pc = "reverified"
   /\ vf.mut \in {"m", "s"}
   /\ vf.d % sg.p # 0)
    => \/ /\ vf.mut = "m" =>
              (vf.mret = "True" <=> (2 * (vf.m + vf.r * vf.d) + vf.delta) % sg.p = 0)
          /\ vf.mut = "s" =>
              (vf.mret = "True"
                 => ((vf.m + vf.r * vf.d) * (2 * vf.s + vf.delta)) % sg.p = 0)
       \/ ~NoXCollision(curve, Aff(sg.G[1], sg.G[2]), sg.p)

\* a changed message was rejected, for a signature in range on a subgroup of
\* order above 3 without x-collisions
C6_Witness ==
  /\ vf.pc = "reverified"
  /\ vf.mut = "m"
  /\ vf.mret = "False"
  /\ vf.d % sg.p # 0
  /\ sg.p > 3
  /\ vf.r \in 1..(sg.p - 1) /\ vf.s \in 1..(sg.p - 1)
  /\ NoXCollision(curve, Aff(sg.G[1], sg.G[2]), sg.p)

\* C7: ecsig answers "Invalid input" to a message m >= p or m >= q, and
\* ecdsaverify returns True only for a message m < p.
C7_MessageBound ==
  /\ (sg.pc = "signed" /\ (sg.m >= sg.p \/ sg.m >= curve[1]))
       => sg.ret.kind = "Invalid input"
  /\ vf.ret = "True" => vf.m < sg.p

\* a is a primitive root modulo the prime p
primitive_root(a, p) ==
  a % p # 0 /\ \A f \in prime_factors(p - 1) : power_mod(a, (p - 1) \div f, p) # 1

\* C11: for a prime p, a primitive root a, a private key n with public key
\* A = a^n mod p and a string s with str2num(s) < p, decrypting the encryption
\* of s returns s capitalized, whatever ephemeral key was drawn.
C11_ElGamalRoundTrip ==
  (/\ eg.pc = "decrypted"
   /\ is_prime(eg.p)
   /\ primitive_root(eg.a, eg.p)
   /\ str2num(eg.s) < eg.p)
    => eg.ret = [kind |-> "str", val |-> [i \in 1..Len(eg.s) |-> upper(eg.s[i])]]

\* C12: the r of a signature ecsig returns is the x-coordinate of k*G reduced
\* modulo p, for the nonce k drawn in that call.
C12_RFromNonce ==
  (sg.ret.kind = "sig" /\ sg.d \in 1..(sg.p - 1))
    => sg.ret.r = RepeatedAdd(curve, sg.k, Aff(sg.G[1], sg.G[2]))[1] % sg.p

\* C13: every signature ecsig returns (for a private key in [1, p-1]) has r and
\* s in [1, p-1].
C13_SignatureRange ==
  (sg.ret.kind = "sig" /\ sg.d \in 1..(sg.p - 1)) => (sg.ret.r \in 1..(sg.p - 1) /\ sg.ret.s \in 1..(sg.p - 1))

\* C14: on a generator of order p, a public key on the curve and an invertible
\* s, ecdsaverify returns False when C = u1*G + u2*Q is the point at infinity,
\* and otherwise True exactly when C.x mod p is r (r taken modulo p).
C14_IdentityRejected ==
  (/\ vf.pc = "verified"
   /\ additive_order(curve, Aff(sg.G[1], sg.G[2])) = sg.p
   /\ OnCurve(curve, vf.Q[1], vf.Q[2])
   /\ Invertible(vf.s % sg.p, sg.p))
    => LET C == verifyPoint(curve, sg.G, sg.p, vf.Q, vf.m, vf.r, vf.s)
       IN  IF C = Inf THEN vf.ret = "False"
           ELSE (vf.ret = "True" <=> C[1] % sg.p = vf.r % sg.p)
                /\ vf.ret \in {"True", "False"}

\* C15: for a prime order p that ecsig accepts (and a private key in [1, p-1]),
\* the nonce drawn is not a multiple of p and ecsig returns a signature.
C15_NonceInvertible ==
  (/\ sg.pc = "signed"
   /\ is_prime(sg.p)
   /\ sg.d \in 1..(sg.p - 1)
   /\ ecsigChecks(sg.p, curve[1], curve[2], curve[3], sg.G, sg.d, sg.m) = "ok")
    => (sg.k % sg.p # 0 /\ sg.ret.kind = "sig")

====
